---- MODULE Spec2Model ----
(***************************************************************************)
(* Model of the LPG-planner station database scripts:                      *)
(*   scripts/create-database.py  (schema creation)                         *)
(*   scripts/add-to-database.py  (batch ingestion: insert/update/ignore)   *)
(*                                                                         *)
(* Representation of values:                                               *)
(*   - a price is the text found in the JSON ("" or a decimal literal);    *)
(*     float(price) is Float, in hundredths of a currency unit;            *)
(*   - a raw date "a/b/c" is the tuple of its "/"-separated numeric        *)
(*     fields, "" is the empty tuple;                                      *)
(*   - the text produced by strftime("%Y-%m-%d") is the tuple of its       *)
(*     zero-padded fields <<yyyy, mm, dd>>; Python compares such texts     *)
(*     lexicographically, which StrLeq does field by field (the dates of   *)
(*     the batches have four-digit years, so every field has a fixed       *)
(*     width, and no coordinate is half-way between two 6-digit values);   *)
(*   - a coordinate is an integer number of 1e-7 degrees.                  *)
(***************************************************************************)
EXTENDS Integers, Sequences, FiniteSets, TLC

VARIABLES
    db_exists,   \* stations.db exists and holds the schema
    committed,   \* durable content of the Stations table: [rows, seq]
    txn,         \* content as seen by db_connection (uncommitted changes included)
    data,        \* the batch given to update_database
    i,           \* 1-based position of the next record of the for loop
    n_added,
    n_updated,
    n_ignored,
    pc,          \* "idle", "loop", "returned", "aborted", "nodb"
    used,        \* number of records handed to update_database so far
    pre_store,   \* history: committed as it was when the running batch started
    seen_c,      \* history: newest date observed per coordinate pair, committed batches
    seen_t       \* history: the same, the running batch included

vars == <<db_exists, committed, txn, data, i, n_added, n_updated, n_ignored,
          pc, used, pre_store, seen_c, seen_t>>

-----------------------------------------------------------------------------
(* Bounds and input domains *)

MaxRecords == 3

\* the same, for the runs that compare the orders of a batch
MaxOrder == 3

CompactAddress == "Main St, 10"

StructuredAddress == [street |-> "Via Roma 1", postal_code |-> "10100", city |-> "Torino"]

\* 45.1/8.2, 45.1000004/8.2 (same pair once rounded), 45.1/8.3
Coords == {<<451000000, 82000000>>, <<451000004, 82000000>>, <<451000000, 83000000>>}

\* 02/01/2024 and 01/02/2024: day-first text order and calendar order disagree
ValidDates == {<<2, 1, 2024>>, <<1, 2, 2024>>}

\* "2024/01/02": not dd/mm/yyyy
MalformedDate == <<2024, 1, 2>>

Station(price, date, c, shape) ==
    [price |-> price, price_date |-> date, latitude |-> c[1], longitude |-> c[2]] @@ shape

CompactShape == "address-compact" :> CompactAddress

StructuredShape == "address" :> StructuredAddress

AcceptedRecords ==
    {Station("0.1", d, c, CompactShape) : d \in ValidDates, c \in Coords}
    \cup {Station("1.1", d, c, StructuredShape) : d \in ValidDates, c \in Coords}

RejectedRecords ==
    { Station("", <<2, 1, 2024>>, <<451000000, 82000000>>, CompactShape),
      Station("0.05", MalformedDate, <<451000000, 82000000>>, StructuredShape),
      Station("0.1", <<>>, <<451000000, 82000000>>, CompactShape),
      Station("0.05", <<1, 2, 2024>>, <<451000000, 83000000>>, CompactShape),
      Station("", MalformedDate, <<451000004, 82000000>>, StructuredShape) }

FatalRecords ==
    { Station("0.1", MalformedDate, <<451000000, 82000000>>, CompactShape) }

Records == AcceptedRecords \cup RejectedRecords \cup FatalRecords

\* records for the comparison of orders: four observations of the pair 45.1/8.2
\* (two dates, two prices, two addresses, two raw latitudes), one of 45.1/8.3,
\* one the skip test rejects and one whose date cannot be parsed
OrderRecords ==
    {Station("0.1", d, <<451000000, 82000000>>, CompactShape) : d \in ValidDates}
    \cup {Station("1.1", d, <<451000004, 82000000>>, StructuredShape) : d \in ValidDates}
    \cup {Station("1.1", <<1, 2, 2024>>, <<451000000, 83000000>>, StructuredShape),
          Station("0.05", <<1, 2, 2024>>, <<451000000, 83000000>>, CompactShape)}
    \cup FatalRecords

\* the same, for the runs of the scenarios on coordinates and addresses
MaxScenario == 3

StructuredAddressWithCountry ==
    [street |-> "Via Roma 1", postal_code |-> "10100", city |-> "Torino", country |-> "Italia"]

CountryShape == "address" :> StructuredAddressWithCountry

\* an entry that holds both forms of the address
BothShape == CompactShape @@ StructuredShape

\* the observations of scenarios 1 to 4 (45.1/8.2 on 01/01/2024 at 0.9, then
\* 02/01/2024 at 1.1, then 01/01/2024 again, then 45.100001/8.2 on 03/01/2024
\* at 1.0), 45.1000004/8.2 (the 7th decimal differs), 45.1/8.200001 (the
\* longitude differs at the 6th decimal); the four forms of address among them
ScenarioRecords ==
    { Station("0.9", <<1, 1, 2024>>, <<451000000, 82000000>>, StructuredShape),
      Station("1.1", <<2, 1, 2024>>, <<451000000, 82000000>>, CountryShape),
      Station("1.1", <<1, 1, 2024>>, <<451000000, 82000000>>, BothShape),
      Station("1.0", <<3, 1, 2024>>, <<451000010, 82000000>>, CompactShape),
      Station("1.0", <<3, 1, 2024>>, <<451000004, 82000000>>, CountryShape),
      Station("0.9", <<1, 1, 2024>>, <<451000000, 82000010>>, BothShape) }

RECURSIVE SeqsUpTo(_, _)
SeqsUpTo(S, n) ==
    IF n = 0 THEN {<<>>}
    ELSE LET shorter == SeqsUpTo(S, n - 1)
         IN  shorter \cup {Append(s, x) : s \in {t \in shorter : Len(t) = n - 1}, x \in S}

-----------------------------------------------------------------------------
(* Conversions *)

PriceFloor == 10

Float(text) ==
    CASE text = "0.05" -> 5
      [] text = "0.1"  -> 10
      [] text = "0.9"  -> 90
      [] text = "1.0"  -> 100
      [] text = "1.1"  -> 110

\* round(x, 5): one digit too few
Round5(x) == ((x + 50) \div 100) * 100

\* the coordinate is looked up and stored as parsed, never rounded
RawCoordinate(x) == x

Round6(x) ==
    LET q == x \div 10
        r == x % 10
    IN  IF r < 5 THEN q * 10
        ELSE IF r > 5 THEN (q + 1) * 10
        ELSE IF q % 2 = 0 THEN q * 10 ELSE (q + 1) * 10

IsLeap(y) == (y % 4 = 0 /\ y % 100 # 0) \/ y % 400 = 0

DaysIn(m, y) ==
    IF m = 2 THEN (IF IsLeap(y) THEN 29 ELSE 28)
    ELSE IF m \in {4, 6, 9, 11} THEN 30 ELSE 31

\* datetime.strptime(date, "%d/%m/%Y") raises ValueError unless this holds
StrptimeOk(date) ==
    /\ Len(date) = 3
    /\ date[3] \in 1..9999
    /\ date[2] \in 1..12
    /\ date[1] \in 1..DaysIn(date[2], date[3])

Strptime(date) == [day |-> date[1], month |-> date[2], year |-> date[3]]

Strftime(dt) == <<dt.year, dt.month, dt.day>>

\* a <= b on two texts of the same fixed-width layout
StrLeq(a, b) ==
    \/ a = b
    \/ \E k \in 1..Len(a) : a[k] < b[k] /\ \A j \in 1..(k - 1) : a[j] = b[j]

\* the structured address preferred over the compact one
AddressStructuredFirst(station) ==
    IF "address" \in DOMAIN station
    THEN LET address_dict == station["address"]
             base == address_dict.street \o ", " \o address_dict.postal_code
                     \o ", " \o address_dict.city
         IN  IF "country" \in DOMAIN address_dict
             THEN base \o ", " \o address_dict.country
             ELSE base
    ELSE station["address-compact"]

Address(station) ==
    IF "address-compact" \in DOMAIN station
    THEN station["address-compact"]
    ELSE LET address_dict == station["address"]
             base == address_dict.street \o ", " \o address_dict.postal_code
                     \o ", " \o address_dict.city
         IN  IF "country" \in DOMAIN address_dict
             THEN base \o ", " \o address_dict.country
             ELSE base

-----------------------------------------------------------------------------
(* The Stations table *)

EmptyStore == [rows |-> {}, seq |-> 0]

\* the lookup accepts a Station within 0.000001 degree
SelectNear(store, latitude, longitude) ==
    {r \in store.rows : /\ r.latitude - latitude \in -10..10
                        /\ r.longitude - longitude \in -10..10}

\* the lookup forgets the longitude
SelectByLatitude(store, latitude, longitude) ==
    {r \in store.rows : r.latitude = latitude}

Select(store, latitude, longitude) ==
    {r \in store.rows : r.latitude = latitude /\ r.longitude = longitude}

\* a Stations table created without UNIQUE(latitude, longitude)
NoUniqueConstraint(store, latitude, longitude) == FALSE

UniqueViolation(store, latitude, longitude) ==
    \E r \in store.rows : r.latitude = latitude /\ r.longitude = longitude

Insert(store, latitude, longitude, price, date, address) ==
    [rows |-> store.rows \cup
                {[id |-> store.seq + 1, latitude |-> latitude, longitude |-> longitude,
                  fuel_price |-> price, price_date |-> date, address |-> address]},
     seq  |-> store.seq + 1]

\* UPDATE without its WHERE clause
UpdateEveryRow(store, price, date, station_id) ==
    [store EXCEPT !.rows =
        {[r EXCEPT !.fuel_price = price, !.price_date = date] : r \in store.rows}]

Update(store, price, date, station_id) ==
    [store EXCEPT !.rows =
        {IF r.id = station_id
         THEN [r EXCEPT !.fuel_price = price, !.price_date = date]
         ELSE r : r \in store.rows}]

-----------------------------------------------------------------------------
(* One iteration of the for loop of update_database *)

\* the floor itself is rejected too: "<= 0.1"
SkippedFloorInclusive(station) ==
    \/ station.price = ""
    \/ Float(station.price) <= PriceFloor
    \/ station.price_date = <<>>

\* a date that strptime cannot parse is skipped like an empty one
SkippedOrUnparseable(station) ==
    \/ station.price = ""
    \/ Float(station.price) < PriceFloor
    \/ station.price_date = <<>>
    \/ ~StrptimeOk(station.price_date)

Skipped(station) ==
    \/ station.price = ""
    \/ Float(station.price) < PriceFloor
    \/ station.price_date = <<>>

\* "date < old_date": an observation of the stored day replaces the stored one
StrictlyOlder(date, old_date) == StrLeq(date, old_date) /\ date # old_date

\* "date >= old_date": the comparison the wrong way round
NotOlder(date, old_date) == StrLeq(old_date, date)

\* no date check at all: the observation that arrives last wins
LastWins(date, old_date) == FALSE

NotNewer(date, old_date) == StrLeq(date, old_date)

\* outcome: "skipped", "ValueError", "added", "IntegrityError", "stale", "updated".
\* The SELECT reads `view`; the INSERT or UPDATE acts on `store`, whose UNIQUE
\* constraint decides whether the INSERT is accepted.
Upsert(view, store, station) ==
    IF Skipped(station) THEN [store |-> store, outcome |-> "skipped"]
    ELSE IF ~StrptimeOk(station.price_date) THEN [store |-> store, outcome |-> "ValueError"]
    ELSE
      LET address   == Address(station)
          latitude  == Round6(station.latitude)
          longitude == Round6(station.longitude)
          price     == Float(station.price)
          date      == Strftime(Strptime(station.price_date))
          found     == Select(view, latitude, longitude)
      IN  IF found = {}
          THEN IF UniqueViolation(store, latitude, longitude)
               THEN [store |-> store, outcome |-> "IntegrityError"]
               ELSE [store |-> Insert(store, latitude, longitude, price, date, address),
                     outcome |-> "added"]
          ELSE LET row == CHOOSE r \in found : TRUE
               IN  IF NotNewer(date, row.price_date)
                   THEN [store |-> store, outcome |-> "stale"]
                   ELSE [store |-> Update(store, price, date, row.id),
                         outcome |-> "updated"]

\* the SELECT reading the committed store instead of the connection's own view
ProcessStationStaleView(store, station) == Upsert(committed, store, station)

ProcessStation(store, station) == Upsert(store, store, station)

\* every statement is committed as it is executed
Autocommit(db, pending) == pending

\* the INSERT and UPDATE statements run inside the connection's open transaction:
\* what is durable after a record is what was durable before it
DurableAfterRecord(db, pending) == db

Raises(outcome) == outcome \in {"ValueError", "IntegrityError"}

\* a match that is not newer is counted with the updates
CountStaleAsUpdated(counts, outcome) ==
    CASE outcome = "added"   -> [counts EXCEPT !.n_added = @ + 1]
      [] outcome = "skipped" -> [counts EXCEPT !.n_ignored = @ + 1]
      [] OTHER               -> [counts EXCEPT !.n_updated = @ + 1]

Count(counts, outcome) ==
    CASE outcome = "added"   -> [counts EXCEPT !.n_added = @ + 1]
      [] outcome = "updated" -> [counts EXCEPT !.n_updated = @ + 1]
      [] OTHER               -> [counts EXCEPT !.n_ignored = @ + 1]

Zero == [n_added |-> 0, n_updated |-> 0, n_ignored |-> 0]

\* update_database as a function of the store and the batch: the store it leaves
\* durable, whether it raised, and the counters it returns.
RECURSIVE ForLoop(_, _, _, _)
ForLoop(store, batch, k, counts) ==
    IF k > Len(batch) THEN [store |-> store, raised |-> FALSE, counts |-> counts]
    ELSE LET r == ProcessStation(store, batch[k])
         IN  IF Raises(r.outcome)
             THEN [store |-> store, raised |-> TRUE, counts |-> counts]
             ELSE ForLoop(r.store, batch, k + 1, Count(counts, r.outcome))

UpdateDatabase(db, batch) ==
    LET run == ForLoop(db, batch, 1, Zero)
    IN  IF run.raised
        THEN [store |-> db, raised |-> TRUE, counts |-> Zero]
        ELSE [store |-> run.store, raised |-> FALSE, counts |-> run.counts]

-----------------------------------------------------------------------------
(* History: per rounded coordinate pair, the first-arrived observation among those
   of the newest calendar date *)

Ordinal(dt) == dt.year * 372 + dt.month * 31 + dt.day

Observe(seen, station) ==
    IF Skipped(station) \/ ~StrptimeOk(station.price_date) THEN seen
    ELSE LET lat == Round6(station.latitude)
             lon == Round6(station.longitude)
             dt  == Strptime(station.price_date)
             old == {s \in seen : s.latitude = lat /\ s.longitude = lon}
         IN  IF \E s \in old : Ordinal(s.dt) >= Ordinal(dt) THEN seen
             ELSE (seen \ old) \cup {[latitude |-> lat, longitude |-> lon, dt |-> dt,
                                      price |-> Float(station.price)]}

-----------------------------------------------------------------------------
(* The programs *)

Init ==
    /\ db_exists = FALSE
    /\ committed = EmptyStore
    /\ txn = EmptyStore
    /\ data = <<>>
    /\ i = 1
    /\ n_added = 0
    /\ n_updated = 0
    /\ n_ignored = 0
    /\ pc = "idle"
    /\ used = 0
    /\ pre_store = EmptyStore
    /\ seen_c = {}
    /\ seen_t = {}

\* the Stations table dropped and created anew
CreateTable(exists, store) == EmptyStore

\* CREATE TABLE IF NOT EXISTS Stations: an empty table in a new file, the table
\* as it is in an existing one
CreateTableIfNotExists(exists, store) == IF exists THEN store ELSE EmptyStore

\* create-database.py: connect (creating the file when absent), CREATE TABLE IF
\* NOT EXISTS for Stations and Distances, then commit; db_exists stands for the
\* file holding both tables
create_database ==
    /\ pc # "loop"
    /\ db_exists' = TRUE
    /\ committed' = CreateTableIfNotExists(db_exists, committed)
    /\ UNCHANGED <<txn, data, i, n_added, n_updated, n_ignored, pc, used,
                   pre_store, seen_c, seen_t>>

\* add-to-database.py main: open_database found no file
main_no_database ==
    /\ pc # "loop"
    /\ ~db_exists
    /\ pc' = "nodb"
    /\ UNCHANGED <<db_exists, committed, txn, data, i, n_added, n_updated, n_ignored,
                   used, pre_store, seen_c, seen_t>>

\* main connecting to the database file whether or not it exists
main_connects_anyway(batch) ==
    /\ pc # "loop"
    /\ data' = batch
    /\ i' = 1
    /\ n_added' = 0
    /\ n_updated' = 0
    /\ n_ignored' = 0
    /\ txn' = committed
    /\ pc' = "loop"
    /\ used' = used + Len(batch)
    /\ pre_store' = committed
    /\ seen_t' = seen_c
    /\ UNCHANGED <<db_exists, committed, seen_c>>

\* add-to-database.py main: the database is open, update_database is entered
main_update_database(batch) ==
    /\ pc # "loop"
    /\ db_exists
    /\ data' = batch
    /\ i' = 1
    /\ n_added' = 0
    /\ n_updated' = 0
    /\ n_ignored' = 0
    /\ txn' = committed
    /\ pc' = "loop"
    /\ used' = used + Len(batch)
    /\ pre_store' = committed
    /\ seen_t' = seen_c
    /\ UNCHANGED <<db_exists, committed, seen_c>>

\* one iteration of the for loop; an exception leaves update_database and main
\* before the commit, and the connection's pending changes are dropped
loop_body ==
    /\ pc = "loop"
    /\ i <= Len(data)
    /\ LET r == ProcessStation(txn, data[i])
           c == Count([n_added |-> n_added, n_updated |-> n_updated,
                       n_ignored |-> n_ignored], r.outcome)
       IN  IF Raises(r.outcome)
           THEN /\ pc' = "aborted"
                /\ txn' = committed
                /\ seen_t' = seen_c
                /\ UNCHANGED <<committed, i, n_added, n_updated, n_ignored>>
           ELSE /\ pc' = "loop"
                /\ txn' = r.store
                /\ seen_t' = Observe(seen_t, data[i])
                /\ i' = i + 1
                /\ n_added' = c.n_added
                /\ n_updated' = c.n_updated
                /\ n_ignored' = c.n_ignored
                /\ committed' = DurableAfterRecord(committed, r.store)
    /\ UNCHANGED <<db_exists, data, used, pre_store, seen_c>>

\* db_connection.commit() and the return of the counters
commit_and_return ==
    /\ pc = "loop"
    /\ i > Len(data)
    /\ committed' = txn
    /\ seen_c' = seen_t
    /\ pc' = "returned"
    /\ UNCHANGED <<db_exists, txn, data, i, n_added, n_updated, n_ignored, used,
                   pre_store, seen_t>>

Next ==
    \/ create_database
    \/ main_no_database
    \/ \E batch \in SeqsUpTo(Records, MaxRecords - used) : main_update_database(batch)
    \/ loop_body
    \/ commit_and_return

Spec == Init /\ [][Next]_vars

NextOrder ==
    \/ create_database
    \/ main_no_database
    \/ \E batch \in SeqsUpTo(OrderRecords, MaxOrder - used) : main_update_database(batch)
    \/ loop_body
    \/ commit_and_return

SpecOrder == Init /\ [][NextOrder]_vars

\* the rounded pairs a second writer inserts
OtherPairs == {<<451000000, 82000000>>, <<451000000, 83000000>>}

OtherInsert(store, c) == Insert(store, c[1], c[2], 100, <<2024, 1, 15>>, "Elsewhere")

\* a second run of the script inserts a Station and commits, while this run holds
\* no write transaction (none is running, or it has executed no INSERT or UPDATE
\* yet); this run's next SELECT reads the committed store
other_writer_insert(c) ==
    /\ db_exists
    /\ pc = "loop" => txn = committed
    /\ ~UniqueViolation(committed, c[1], c[2])
    /\ committed' = OtherInsert(committed, c)
    /\ txn' = IF pc = "loop" THEN OtherInsert(committed, c) ELSE txn
    /\ UNCHANGED <<db_exists, data, i, n_added, n_updated, n_ignored, pc, used,
                   pre_store, seen_c, seen_t>>

\* one iteration of the for loop in which the second writer's INSERT is committed
\* after this run's SELECT and before its INSERT or UPDATE
loop_body_raced(c) ==
    /\ pc = "loop"
    /\ i <= Len(data)
    /\ txn = committed
    /\ ~UniqueViolation(committed, c[1], c[2])
    /\ LET after == OtherInsert(committed, c)
           r == Upsert(txn, after, data[i])
           n == Count([n_added |-> n_added, n_updated |-> n_updated,
                       n_ignored |-> n_ignored], r.outcome)
       IN  /\ committed' = after
           /\ IF Raises(r.outcome)
              THEN /\ pc' = "aborted"
                   /\ txn' = after
                   /\ seen_t' = seen_c
                   /\ UNCHANGED <<i, n_added, n_updated, n_ignored>>
              ELSE /\ pc' = "loop"
                   /\ txn' = r.store
                   /\ seen_t' = Observe(seen_t, data[i])
                   /\ i' = i + 1
                   /\ n_added' = n.n_added
                   /\ n_updated' = n.n_updated
                   /\ n_ignored' = n.n_ignored
    /\ UNCHANGED <<db_exists, data, used, pre_store, seen_c>>

NextRace ==
    \/ create_database
    \/ main_no_database
    \/ \E batch \in SeqsUpTo(OrderRecords, MaxOrder - used) : main_update_database(batch)
    \/ loop_body
    \/ commit_and_return
    \/ \E c \in OtherPairs : other_writer_insert(c)
    \/ \E c \in OtherPairs : loop_body_raced(c)

SpecRace == Init /\ [][NextRace]_vars

NextScenario ==
    \/ create_database
    \/ main_no_database
    \/ \E batch \in SeqsUpTo(ScenarioRecords, MaxScenario - used) : main_update_database(batch)
    \/ loop_body
    \/ commit_and_return

SpecScenario == Init /\ [][NextScenario]_vars

-----------------------------------------------------------------------------
(* Vocabulary of the properties, stated without the operators of the code *)

\* the record the for loop is about to process
AtRecord == pc = "loop" /\ i <= Len(data)

\* x at 6 fractional digits (x is not half-way between two such values)
Decimals6(x) == ((x + 5) \div 10) * 10

\* yyyy-mm-dd text of a calendar date, and its place in the calendar
Iso(dt) == <<dt.year, dt.month, dt.day>>

IsoOrdinal(text) == text[1] * 372 + text[2] * 31 + text[3]

\* the record passes normalization: price present and >= 0.1, date a dd/mm/yyyy date
Normalizes(st) ==
    /\ st.price # ""
    /\ Float(st.price) >= PriceFloor
    /\ st.price_date # <<>>
    /\ StrptimeOk(st.price_date)

Matching(store, st) ==
    {r \in store.rows : /\ r.latitude = Decimals6(st.latitude)
                        /\ r.longitude = Decimals6(st.longitude)}

DateOf(st) == [day |-> st.price_date[1], month |-> st.price_date[2], year |-> st.price_date[3]]

CountersStep(da, du, dg) ==
    /\ n_added' = n_added + da
    /\ n_updated' = n_updated + du
    /\ n_ignored' = n_ignored + dg

-----------------------------------------------------------------------------
\* C1: for a record that passes normalization exactly one of Insert (no Station
\* has its rounded pair: one row is added), Update (a Station has the pair and
\* the record's date is strictly later: that one row gets the price and date) and
\* Ignore (a Station has the pair, date equal or earlier: nothing changes)
\* happens, decided by the store as it stands.
C1_ThreeWayDecision ==
    [][ (AtRecord /\ Normalizes(data[i])) =>
          LET st == data[i]
              m  == Matching(txn, st)
          IN  /\ pc' = "loop"
              /\ m = {} =>
                   /\ CountersStep(1, 0, 0)
                   /\ txn.rows \subseteq txn'.rows
                   /\ Cardinality(txn'.rows \ txn.rows) = 1
                   /\ \A q \in txn'.rows \ txn.rows :
                        /\ q.latitude = Decimals6(st.latitude)
                        /\ q.longitude = Decimals6(st.longitude)
                        /\ q.price_date = Iso(DateOf(st))
                        /\ q.fuel_price = Float(st.price)
              /\ \A r \in m :
                   IF Ordinal(DateOf(st)) > IsoOrdinal(r.price_date)
                   THEN /\ CountersStep(0, 1, 0)
                        /\ txn'.rows = (txn.rows \ {r}) \cup
                             {[r EXCEPT !.fuel_price = Float(st.price),
                                        !.price_date = Iso(DateOf(st))]}
                        /\ Cardinality(txn'.rows \ txn.rows) = 1
                   ELSE /\ CountersStep(0, 0, 1)
                        /\ txn' = txn
    ]_vars

\* an insert, an update and an ignore have happened in one batch of normalizing records
C1_Witness ==
    /\ pc = "loop"
    /\ i = 4
    /\ \A k \in 1..3 : Normalizes(data[k])
    /\ n_added = 1 /\ n_updated = 1 /\ n_ignored = 1

\* C2: no two Stations of the store have the same rounded (latitude, longitude),
\* in the durable store and in the running batch's view of it.
C2_Uniqueness ==
    \A store \in {committed, txn} :
        \A r, q \in store.rows :
            (Decimals6(r.latitude) = Decimals6(q.latitude)
             /\ Decimals6(r.longitude) = Decimals6(q.longitude)) => r = q

\* a committed batch with two records of one rounded pair (raw latitudes differ)
\* and a record of another pair
C2_Witness ==
    /\ pc = "returned"
    /\ Cardinality(committed.rows) = 2
    /\ Len(data) = 3
    /\ \E j, k \in 1..3 :
         /\ data[j].latitude # data[k].latitude
         /\ Decimals6(data[j].latitude) = Decimals6(data[k].latitude)
         /\ data[j].longitude = data[k].longitude
         /\ Normalizes(data[j]) /\ Normalizes(data[k])

\* the rows of `before` keep their values in `after` or get a strictly later date
Fresher(before, after) ==
    \A r \in before.rows : \A q \in after.rows :
        q.id = r.id =>
            \/ q.price_date = r.price_date /\ q.fuel_price = r.fuel_price
            \/ IsoOrdinal(q.price_date) > IsoOrdinal(r.price_date)

\* C3: in every step the price_date of an existing Station stays or is replaced
\* by a strictly later date, and fuel_price changes only when it is.
C3_MonotonicFreshness ==
    [][ /\ Fresher(committed, committed')
        /\ (pc = "loop" /\ pc' # "aborted") => Fresher(txn, txn')
    ]_vars

\* an update was applied and an older or equal observation ignored for one Station
C3_Witness ==
    /\ pc = "loop"
    /\ Cardinality(txn.rows) = 1
    /\ n_updated = 1
    /\ n_ignored = 1
    /\ \A k \in 1..Len(data) : Normalizes(data[k])

\* the price_date of every Station of `store` is the newest date of `seen` for its pair
NewestDates(store, seen) ==
    /\ \A s \in seen : \E r \in store.rows :
          /\ r.latitude = s.latitude /\ r.longitude = s.longitude
          /\ r.price_date = Iso(s.dt)
    /\ \A r \in store.rows : \E s \in seen :
          r.latitude = s.latitude /\ r.longitude = s.longitude

\* C4: the stored price_date of a Station is the maximum date among the
\* observations for its pair that passed normalization, in the durable store
\* after any sequence of ingestions and in the running batch's view.
C4_MaxDate ==
    /\ NewestDates(committed, seen_c)
    /\ pc = "loop" => NewestDates(txn, seen_t)

\* a committed Station that saw the later date first and the earlier one after
C4_Witness ==
    /\ pc = "returned"
    /\ Len(data) >= 2
    /\ \E j, k \in 1..Len(data) :
         /\ j < k
         /\ Normalizes(data[j]) /\ Normalizes(data[k])
         /\ Decimals6(data[j].latitude) = Decimals6(data[k].latitude)
         /\ data[j].longitude = data[k].longitude
         /\ Ordinal(DateOf(data[j])) > Ordinal(DateOf(data[k]))
    /\ committed.rows # {}

\* the batch in another order
Permute(batch, f) == [k \in 1..Len(batch) |-> batch[f[k]]]

Orders(batch) == {Permute(batch, f) : f \in Permutations(1..Len(batch))}

\* the Stations of a store without their surrogate id
Content(store) ==
    {[latitude |-> r.latitude, longitude |-> r.longitude, fuel_price |-> r.fuel_price,
      price_date |-> r.price_date, address |-> r.address] : r \in store.rows}

KeysAndDates(store) ==
    {[latitude |-> r.latitude, longitude |-> r.longitude, price_date |-> r.price_date]
       : r \in store.rows}

KeysDatesPrices(store) ==
    {[latitude |-> r.latitude, longitude |-> r.longitude, price_date |-> r.price_date,
      fuel_price |-> r.fuel_price] : r \in store.rows}

SamePair(a, b) ==
    /\ Decimals6(a.latitude) = Decimals6(b.latitude)
    /\ Decimals6(a.longitude) = Decimals6(b.longitude)

\* no two normalizing records of the batch for one rounded pair carry the same date
DatesDiffer(batch) ==
    \A j, k \in 1..Len(batch) :
        (j # k /\ Normalizes(batch[j]) /\ Normalizes(batch[k]) /\ SamePair(batch[j], batch[k]))
            => batch[j].price_date # batch[k].price_date

BatchStarts == pc = "loop" /\ i = 1

\* the loop's steps compute what update_database computes as a function
StepwiseIsUpdateDatabase ==
    /\ pc = "returned" =>
         UpdateDatabase(pre_store, data) =
            [store |-> committed, raised |-> FALSE,
             counts |-> [n_added |-> n_added, n_updated |-> n_updated,
                         n_ignored |-> n_ignored]]
    /\ pc = "aborted" =>
         /\ UpdateDatabase(pre_store, data).raised
         /\ UpdateDatabase(pre_store, data).store = committed

\* C5: running update_database a second time on a batch that was ingested
\* without a fatal error leaves the store as the first run left it and returns
\* added = 0, updated = 0, every record ignored.
C5_Idempotence ==
    pc = "returned" =>
        LET again == UpdateDatabase(committed, data)
        IN  /\ ~again.raised
            /\ again.store = committed
            /\ again.counts = [n_added |-> 0, n_updated |-> 0, n_ignored |-> Len(data)]

\* the first run of the batch inserted and updated
C5_Witness ==
    /\ pc = "returned"
    /\ n_added >= 1
    /\ n_updated >= 1
    /\ committed # pre_store

\* C6 as claimed: every order of the batch's records leaves the same Stations
\* (coordinates, fuel_price, price_date, address; the id aside).
C6_OrderIrrelevant ==
    BatchStarts =>
        \A other \in Orders(data) :
            Content(UpdateDatabase(committed, other).store)
                = Content(UpdateDatabase(committed, data).store)

\* C6 amended: every order of the batch's records leaves the same rounded
\* coordinate pairs with the same price_date (and raises or not alike); the
\* fuel_price is the same too when no two normalizing records of the batch for
\* one pair carry the same date; the address depends on the order.
C6_OrderIrrelevantDates ==
    BatchStarts =>
        \A other \in Orders(data) :
            LET a == UpdateDatabase(committed, data)
                b == UpdateDatabase(committed, other)
            IN  /\ a.raised = b.raised
                /\ KeysAndDates(a.store) = KeysAndDates(b.store)
                /\ DatesDiffer(data) => KeysDatesPrices(a.store) = KeysDatesPrices(b.store)

\* a batch with two records of different dates for a Station the store holds
C6_Witness ==
    /\ BatchStarts
    /\ committed.rows # {}
    /\ Len(data) = 2
    /\ Normalizes(data[1]) /\ Normalizes(data[2])
    /\ SamePair(data[1], data[2])
    /\ data[1].price_date # data[2].price_date
    /\ Matching(committed, data[1]) # {}

\* C7: the durable store changes only at the commit issued after the last
\* record, and after an abort it is the store the batch started from.
C7_BatchAtomicity ==
    [][ /\ committed' # committed =>
              /\ pc = "loop" /\ i > Len(data)
              /\ pc' = "returned"
              /\ committed' = txn
        /\ pc' = "aborted" => committed' = pre_store'
        /\ (pc = "loop" /\ pc' = "aborted") => committed' = committed
    ]_vars

\* a batch that aborted after inserting or updating for an earlier record
C7_Witness ==
    /\ pc = "aborted"
    /\ i >= 2
    /\ n_added + n_updated >= 1
    /\ committed = pre_store

\* price at or above the floor, date non-empty and not a dd/mm/yyyy date
UnparseableDate(st) ==
    /\ st.price # ""
    /\ Float(st.price) >= PriceFloor
    /\ st.price_date # <<>>
    /\ ~StrptimeOk(st.price_date)

\* C8 as claimed: a record with a valid price and an unparseable date is counted
\* as ignored, mutates nothing, and the loop goes on to the next record.
C8_UnparseableDateSkipped ==
    [][ (AtRecord /\ UnparseableDate(data[i])) =>
          /\ CountersStep(0, 0, 1)
          /\ txn' = txn
          /\ pc' = "loop"
          /\ i' = i + 1
    ]_vars

\* C8 amended: a record with a valid price and an unparseable date makes strptime
\* raise: update_database stops at that record, counts nothing for it, processes
\* no later record and commits nothing, so the durable store is the pre-batch one.
C8_UnparseableDateAborts ==
    [][ (AtRecord /\ UnparseableDate(data[i])) =>
          /\ pc' = "aborted"
          /\ i' = i
          /\ CountersStep(0, 0, 0)
          /\ committed' = pre_store
          /\ txn' = pre_store
    ]_vars

\* a batch aborted at an unparseable date after an earlier record was inserted
C8_Witness ==
    /\ pc = "aborted"
    /\ i >= 2
    /\ UnparseableDate(data[i])
    /\ n_added >= 1
    /\ committed = pre_store

\* C9: a record with an empty price, a price below 0.1 (whatever its date) or an
\* empty date is counted as ignored, changes no Station, raises nothing and the
\* loop continues; a price of exactly 0.1 is not rejected.
C9_RejectedWithoutRaising ==
    [][ AtRecord =>
          LET st == data[i]
          IN  /\ (st.price = "" \/ st.price = "0.05" \/ st.price_date = <<>>) =>
                    /\ CountersStep(0, 0, 1)
                    /\ txn' = txn
                    /\ committed' = committed
                    /\ pc' = "loop"
                    /\ i' = i + 1
              /\ (st.price = "0.1" /\ st.price_date \in ValidDates
                    /\ Matching(txn, st) = {}) => CountersStep(1, 0, 0)
    ]_vars

\* the three kinds of rejected record were skipped in one batch
C9_Witness ==
    /\ pc = "loop"
    /\ i = 4
    /\ n_ignored = 3
    /\ \E k \in 1..3 : data[k].price = ""
    /\ \E k \in 1..3 : data[k].price = "0.05" /\ data[k].price_date = MalformedDate
    /\ \E k \in 1..3 : data[k].price = "0.1" /\ data[k].price_date = <<>>
    /\ txn = pre_store

\* the rows of `before` are in `after` with their id, coordinates and address
Kept(before, after) ==
    \A r \in before.rows : \E q \in after.rows :
        /\ q.id = r.id
        /\ q.latitude = r.latitude
        /\ q.longitude = r.longitude
        /\ q.address = r.address

\* C10: no step changes the id, latitude, longitude or address of a Station or
\* removes a Station; an Update changes fuel_price and price_date of the one
\* matched Station and nothing else.
C10_Frame ==
    [][ /\ Kept(committed, committed')
        /\ (pc = "loop" /\ pc' # "aborted") => Kept(txn, txn')
        /\ (AtRecord /\ n_updated' = n_updated + 1) =>
              \E r \in Matching(txn, data[i]) :
                  /\ txn.rows \ {r} \subseteq txn'.rows
                  /\ \E q \in txn'.rows :
                        /\ txn'.rows = (txn.rows \ {r}) \cup {q}
                        /\ q = [r EXCEPT !.fuel_price = q.fuel_price,
                                         !.price_date = q.price_date]
                  /\ txn'.seq = txn.seq
    ]_vars

\* an update by an observation whose address differs from the stored one, with
\* another Station in the store
C10_Witness ==
    /\ pc = "loop"
    /\ i = 4
    /\ n_added = 2
    /\ n_updated = 1
    /\ \E r \in Matching(txn, data[3]) : r.address # Address(data[3])

-----------------------------------------------------------------------------
(* Coordinates *)

\* the store after scenario 1: the one Station 45.1/8.2 dated 2024-01-01
ScenarioOneStore(store) ==
    /\ Cardinality(store.rows) = 1
    /\ \A r \in store.rows :
         /\ r.latitude = 451000000
         /\ r.longitude = 82000000
         /\ r.price_date = <<2024, 1, 1>>

\* update_database has returned from the batch made of the observation of
\* scenario 4 alone, started on the store of scenario 1
ScenarioFourDone ==
    /\ pc = "returned"
    /\ ScenarioOneStore(pre_store)
    /\ data = <<Station("1.0", <<3, 1, 2024>>, <<451000010, 82000000>>, CompactShape)>>

\* C11 as claimed: scenario 4 updates the Station of scenario 1: updated = 1,
\* added = 0, one Station, now at 1.0 on 2024-01-03.
C11_ScenarioFourUpdates ==
    ScenarioFourDone =>
        /\ n_updated = 1
        /\ n_added = 0
        /\ Cardinality(committed.rows) = 1
        /\ \A r \in committed.rows : r.fuel_price = 100 /\ r.price_date = <<2024, 1, 3>>

\* C11 amended: 45.100001 is its own value at 6 decimals, so scenario 4 inserts
\* a second Station: added = 1, updated = 0, ignored = 0, the Station of
\* scenario 1 is unchanged and the new one is 45.100001/8.2 at 1.0 on 2024-01-03.
C11_ScenarioFourInserts ==
    ScenarioFourDone =>
        /\ n_added = 1
        /\ n_updated = 0
        /\ n_ignored = 0
        /\ Cardinality(committed.rows) = 2
        /\ pre_store.rows \subseteq committed.rows
        /\ \A r \in committed.rows \ pre_store.rows :
             /\ r.latitude = 451000010
             /\ r.longitude = 82000000
             /\ r.fuel_price = 100
             /\ r.price_date = <<2024, 1, 3>>

C11_Witness == ScenarioFourDone

\* a batch of two normalizing records has been processed
TwoProcessed ==
    /\ pc = "returned"
    /\ Len(data) = 2
    /\ Normalizes(data[1])
    /\ Normalizes(data[2])

NewPair(store, st) == IF Matching(store, st) = {} THEN 1 ELSE 0

\* C12: two non-rejected observations are resolved to one Station exactly when
\* their latitudes agree at 6 decimals and their longitudes agree at 6 decimals:
\* a batch of two such records adds at most one Station for the pair (the other
\* is an update or an ignore), a batch of two records of different rounded
\* pairs adds one Station for each pair the store did not hold.
C12_RoundedPairIsKey ==
    TwoProcessed =>
        LET a == data[1]
            b == data[2]
            same == /\ Decimals6(a.latitude) = Decimals6(b.latitude)
                    /\ Decimals6(a.longitude) = Decimals6(b.longitude)
        IN  /\ same =>
                /\ n_added = NewPair(pre_store, a)
                /\ n_updated + n_ignored = 2 - n_added
                /\ Cardinality(Matching(committed, a)) = 1
                /\ Matching(committed, a) = Matching(committed, b)
            /\ ~same =>
                /\ n_added = NewPair(pre_store, a) + NewPair(pre_store, b)
                /\ Cardinality(Matching(committed, a)) = 1
                /\ Cardinality(Matching(committed, b)) = 1
                /\ Matching(committed, a) # Matching(committed, b)
            /\ Cardinality(committed.rows) = Cardinality(pre_store.rows) + n_added

\* 45.1 and 45.1000004 at one longitude in one batch on the empty store: one Station
C12_Witness ==
    /\ TwoProcessed
    /\ pre_store.rows = {}
    /\ data[1].latitude = 451000000
    /\ data[2].latitude = 451000004
    /\ data[1].longitude = data[2].longitude
    /\ Cardinality(committed.rows) = 1

\* both records of the batch went into the empty store
TwoIntoEmpty == TwoProcessed /\ pre_store.rows = {}

\* C13 as claimed: two observations whose raw coordinates differ, be it at the
\* 7th decimal only, make two Stations in an empty store.
C13_RawDifferenceDistinct ==
    TwoIntoEmpty =>
        ((data[1].latitude # data[2].latitude \/ data[1].longitude # data[2].longitude)
            => Cardinality(committed.rows) = 2)

\* C13 amended: the match is exact equality of the pair rounded to 6 decimals,
\* without tolerance: two observations whose rounded pairs differ, be it by
\* 0.000001 in one coordinate, make two Stations in an empty store; two whose
\* raw coordinates differ only beyond the 6th decimal make one.
C13_RoundedDifferenceDistinct ==
    TwoIntoEmpty =>
        LET dlat == Decimals6(data[1].latitude) - Decimals6(data[2].latitude)
            dlon == Decimals6(data[1].longitude) - Decimals6(data[2].longitude)
        IN  /\ (dlat # 0 \/ dlon # 0) =>
                /\ Cardinality(committed.rows) = 2
                /\ n_added = 2
            /\ (dlat = 0 /\ dlon = 0) =>
                /\ Cardinality(committed.rows) = 1
                /\ n_added = 1

\* 45.1 and 45.100001 at one longitude: 0.000001 apart, two Stations
C13_Witness ==
    /\ TwoIntoEmpty
    /\ data[1].latitude = 451000000
    /\ data[2].latitude = 451000010
    /\ data[1].longitude = data[2].longitude
    /\ Cardinality(committed.rows) = 2

-----------------------------------------------------------------------------
(* Counters *)

Total == n_added + n_updated + n_ignored

\* C14: every record processed adds one to exactly one counter (a record the
\* normalizer rejects and a match that is not newer to n_ignored); n_added counts
\* the records that added a Station, n_updated those that changed an existing
\* one; when update_database returns the counters sum to the length of the
\* batch and the store has grown by n_added Stations.
C14_CounterAccounting ==
    [][ /\ (AtRecord /\ pc' = "loop") =>
              /\ Total' = Total + 1
              /\ n_added' \in {n_added, n_added + 1}
              /\ n_updated' \in {n_updated, n_updated + 1}
              /\ n_ignored' \in {n_ignored, n_ignored + 1}
              /\ Cardinality(txn'.rows) = Cardinality(txn.rows) + (n_added' - n_added)
              /\ (n_updated' = n_updated + 1) <=> (\E r \in txn.rows : r \notin txn'.rows)
              /\ (n_ignored' = n_ignored + 1) <=> (txn' = txn)
              /\ ~Normalizes(data[i]) => n_ignored' = n_ignored + 1
        /\ pc' = "returned" =>
              /\ Total' = Len(data')
              /\ Total' = Total
              /\ Cardinality(committed'.rows) = Cardinality(pre_store'.rows) + n_added'
    ]_vars

\* a returned batch of an insert, an update and a record the normalizer rejects
C14_Witness ==
    /\ pc = "returned"
    /\ Len(data) = 3
    /\ n_added = 1
    /\ n_updated = 1
    /\ n_ignored = 1
    /\ \E k \in 1..3 : ~Normalizes(data[k])

-----------------------------------------------------------------------------
(* A second writer *)

\* C15: when this run processes a record whose lookup found no Station for the
\* pair and the store holds one by the time of its INSERT (a second writer
\* committed it in between), the
\* UNIQUE constraint rejects the INSERT and the error leaves update_database:
\* the record is counted nowhere, the store holds one Station for the pair (the
\* second writer's), and this run commits nothing, then or later.
C15_UniqueViolationIsFatal ==
    [][ /\ (AtRecord /\ (i' # i \/ pc' # pc)
              /\ Normalizes(data[i]) /\ Matching(txn, data[i]) = {}
              /\ Matching(committed', data[i]) # {}) =>
              /\ pc' = "aborted"
              /\ CountersStep(0, 0, 0)
              /\ i' = i
              /\ Cardinality(Matching(committed', data[i])) = 1
              /\ \A r \in Matching(committed', data[i]) : r.address = "Elsewhere"
              /\ txn' = committed'
        /\ pc = "aborted" => pc' # "returned"
        /\ \A r, q \in committed'.rows :
              (r.latitude = q.latitude /\ r.longitude = q.longitude) => r = q
    ]_vars

\* the run was aborted at a normalizing record whose pair the second writer holds
C15_Witness ==
    /\ pc = "aborted"
    /\ Normalizes(data[i])
    /\ \E r \in Matching(committed, data[i]) : r.address = "Elsewhere"

-----------------------------------------------------------------------------
(* The database file *)

\* C16: while the database file does not exist no record has been read or
\* processed and the store is empty; the only steps are the initializer creating
\* the file, and main ending at "Cannot find the database" with no file created,
\* no batch loaded, update_database not entered and no counter set.
C16_StoreUnavailable ==
    [][ ~db_exists =>
          /\ data = <<>>
          /\ Total = 0
          /\ committed = EmptyStore
          /\ pc \in {"idle", "nodb"}
          /\ \/ db_exists' /\ pc' = pc
             \/ ~db_exists' /\ pc' = "nodb"
          /\ data' = data
          /\ i' = i
          /\ CountersStep(0, 0, 0)
          /\ committed' = committed
          /\ txn' = txn
          /\ used' = used
    ]_vars

\* main has ended for want of a database file, and there is still none
C16_Witness == pc = "nodb" /\ ~db_exists

-----------------------------------------------------------------------------
(* Addresses *)

RECURSIVE CommaJoined(_)
CommaJoined(parts) ==
    IF Len(parts) = 1 THEN parts[1] ELSE parts[1] \o ", " \o CommaJoined(Tail(parts))

ResolvedAddress(st) ==
    IF "address-compact" \in DOMAIN st
    THEN st["address-compact"]
    ELSE CommaJoined(<<st["address"].street, st["address"].postal_code, st["address"].city>>
                     \o (IF "country" \in DOMAIN st["address"]
                         THEN <<st["address"].country>>
                         ELSE <<>>))

\* C17: the record that causes an Insert adds one Station whose address is the
\* compact address when the record has one (also when it has a structured
\* address too), and otherwise street, postal code and city joined by ", ", with
\* ", " and the country appended only when the record has a country.
C17_AddressResolution ==
    [][ (AtRecord /\ pc' = "loop" /\ n_added' = n_added + 1) =>
          \E r \in txn'.rows :
              /\ txn'.rows = txn.rows \cup {r}
              /\ r \notin txn.rows
              /\ r.address = ResolvedAddress(data[i])
              /\ ("address-compact" \in DOMAIN data[i]) => r.address = "Main St, 10"
              /\ (/\ "address-compact" \notin DOMAIN data[i]
                  /\ "country" \notin DOMAIN data[i]["address"])
                     => r.address = "Via Roma 1, 10100, Torino"
              /\ (/\ "address-compact" \notin DOMAIN data[i]
                  /\ "country" \in DOMAIN data[i]["address"])
                     => r.address = "Via Roma 1, 10100, Torino, Italia"
    ]_vars

\* a record with both addresses and one with a country have each been inserted
C17_Witness ==
    /\ pc = "returned"
    /\ n_added = 2
    /\ \E k \in 1..Len(data) :
          /\ "address-compact" \in DOMAIN data[k]
          /\ "address" \in DOMAIN data[k]
          /\ \E r \in Matching(committed, data[k]) : r.address = "Main St, 10"
    /\ \E r \in committed.rows : r.address = "Via Roma 1, 10100, Torino, Italia"

-----------------------------------------------------------------------------
(* The initializer *)

\* C18: the initializer run where no database file exists leaves a database
\* whose Stations table is empty; run where one exists, between batches and any
\* number of times, it changes no row of Stations: every step that is not a step
\* of add-to-database.py leaves the committed Stations, the last batch and its
\* counters as they were, and the database exists after it.
C18_InitializerIdempotent ==
    [][ (pc # "loop" /\ pc' = pc) =>
          /\ db_exists'
          /\ ~db_exists => committed'.rows = {}
          /\ db_exists => committed' = committed
          /\ \A r \in committed.rows : r \in committed'.rows
          /\ data' = data
          /\ CountersStep(0, 0, 0)
    ]_vars

\* between two batches, with Stations ingested: the initializer can run here
C18_Witness ==
    /\ db_exists
    /\ pc = "returned"
    /\ committed.rows # {}
    /\ used < MaxScenario
    /\ ENABLED create_database

-----------------------------------------------------------------------------
(* Price and date *)

\* price and date of every Station of `store` are those of the one observation
\* `seen` holds for its pair
PairedWith(store, seen) ==
    \A r \in store.rows : \E s \in seen :
        /\ r.latitude = s.latitude /\ r.longitude = s.longitude
        /\ r.fuel_price = s.price
        /\ r.price_date = Iso(s.dt)

\* C19: fuel_price and price_date of every Station are the price and the
\* normalized date of one observation for its pair: the first to arrive among
\* those of the newest date seen for the pair, in the durable store and in the
\* running batch's view; an observation of the same date that arrives later does
\* not replace the price.
C19_PriceDatePairing ==
    /\ PairedWith(committed, seen_c)
    /\ pc = "loop" => PairedWith(txn, seen_t)

\* two observations of one pair and one date with different prices were
\* ingested into an empty store
C19_Witness ==
    /\ pc = "returned"
    /\ pre_store.rows = {}
    /\ Len(data) = 2
    /\ Normalizes(data[1]) /\ Normalizes(data[2])
    /\ Decimals6(data[1].latitude) = Decimals6(data[2].latitude)
    /\ Decimals6(data[1].longitude) = Decimals6(data[2].longitude)
    /\ data[1].price_date = data[2].price_date
    /\ Float(data[1].price) # Float(data[2].price)
    /\ \E r \in committed.rows : r.fuel_price = Float(data[1].price)

-----------------------------------------------------------------------------
(* One batch, one pair, several records *)

\* an earlier record of the running batch passed normalization with the pair of st
EarlierInBatch(st) ==
    \E j \in 1..(i - 1) :
        /\ Normalizes(data[j])
        /\ Decimals6(data[j].latitude) = Decimals6(st.latitude)
        /\ Decimals6(data[j].longitude) = Decimals6(st.longitude)

\* C20: the lookup for a record sees what the earlier records of the same batch
\* wrote. Of the normalizing records of a batch that share a pair the store did
\* not hold, the first is inserted; each later one finds the one Station of the
\* pair and is an update when its date is newer than the date held then, and
\* ignored otherwise, never an insert; and a run alone on the store is never
\* ended by the UNIQUE constraint.
C20_ReadYourWrites ==
    [][ /\ (AtRecord /\ Normalizes(data[i]) /\ EarlierInBatch(data[i])) =>
              /\ pc' = "loop"
              /\ Cardinality(Matching(txn, data[i])) = 1
              /\ txn'.seq = txn.seq
              /\ \A r \in Matching(txn, data[i]) :
                    IF Ordinal(DateOf(data[i])) > IsoOrdinal(r.price_date)
                    THEN CountersStep(0, 1, 0)
                    ELSE CountersStep(0, 0, 1)
        /\ (/\ AtRecord /\ Normalizes(data[i]) /\ ~EarlierInBatch(data[i])
            /\ Matching(pre_store, data[i]) = {}) =>
              /\ pc' = "loop"
              /\ CountersStep(1, 0, 0)
              /\ Cardinality(Matching(txn', data[i])) = 1
        /\ pc' = "aborted" => UnparseableDate(data[i])
    ]_vars

\* three records of one pair ingested into an empty store: one insert, one
\* update, one ignored
C20_Witness ==
    /\ pc = "returned"
    /\ pre_store.rows = {}
    /\ Len(data) = 3
    /\ \A k \in 1..3 :
          /\ Normalizes(data[k])
          /\ Decimals6(data[k].latitude) = Decimals6(data[1].latitude)
          /\ Decimals6(data[k].longitude) = Decimals6(data[1].longitude)
    /\ n_added = 1
    /\ n_updated = 1
    /\ n_ignored = 1
    /\ Cardinality(committed.rows) = 1

====
